---- MODULE Spec2Model ----
(***************************************************************************)
(* ProcessRunner (src/runner.py): one supervisor object shared by caller   *)
(* threads, the reader threads it creates, and the child processes it      *)
(* spawns.  Every statement of runner.py that reads or writes shared state *)
(* is one step; a `with self._lock:` block that only copies self._process  *)
(* is one step guarded by the lock being free.                             *)
(***************************************************************************)
EXTENDS Integers, Sequences, FiniteSets, TLC

\* Bounds of the model.
MaxStarts == 2          \* start() calls issued in one behaviour
MaxLines == 1           \* lines a child writes before it falls silent
MaxChunks == 3          \* the same, where one child is followed on its own
MaxArgLen == 4          \* characters in the args string passed to start()
MaxLaunches == 1        \* scripts launched from the window
MaxEntries == 3         \* entries the configuration holds at most
MaxLogLines == 2        \* log_max_lines the configuration is tried with, at most
MaxTextLen == 2         \* characters of a text appended to the log on its own
MaxLogLen == 6          \* characters the log holds at most when appended to on its own

\* process.wait(timeout=5)
GracePeriod == 5

\* Strings are sequences of characters; str.split() splits at whitespace.
Whitespace == {" ", "\t"}
Chars == Whitespace \cup {"a", "b"}
ArgStrings == UNION {[1..n -> Chars] : n \in 0..MaxArgLen}

\* self.python_executable and str(script), as single opaque words.
PythonExecutable == <<"python">>
ScriptPath == <<"script">>
\* str(script.parent), the directory that contains the script.
ScriptParent == <<"script.parent">>

Callers == {"c1", "c2"}
Children == 1..MaxStarts
None == 0

VARIABLES
    process,        \* self._process: None or the child the Popen object owns
    running,        \* self._running
    output_queue,   \* self._output_queue
    reader_thread,  \* self._reader_thread: None or the reader last created
    lock,           \* self._lock: "free" or the caller thread that holds it
    child,          \* OS: state of each child process
    written,        \* OS: lines each child has written so far
    pipe,           \* OS: lines in each child's stdout pipe not yet read
    closes,         \* how many times process.stdout.close() ran per child
    sent,           \* OS: signals delivered to each child
    pc,             \* caller threads: position in the method being run
    frame,          \* caller threads: arguments and locals of that method
    last,           \* caller threads: the call that returned last, and its result
    drained,        \* history: every chunk get_output has returned, in call order
    rpc,            \* reader threads: position in read_output
    rproc,          \* reader threads: the local variable `process`
    rline,          \* reader threads: the line read and not yet queued
    nstarts,        \* start() calls issued so far
    config,         \* ConfigManager: self._config, the file, the last call
    app             \* LauncherApp: its fields, widgets and handler position

runnerVars == <<process, running, output_queue, reader_thread, lock>>
osVars == <<child, written, pipe, closes, sent>>
callerVars == <<pc, frame, last, drained>>
readerVars == <<rpc, rproc, rline>>
uiVars == <<config, app>>
vars == <<runnerVars, osVars, callerVars, readerVars, nstarts, uiVars>>

\* start()'s cwd argument: not given (None), or a string.
NoCwd == [given |-> FALSE, path |-> <<>>]
CwdArgs == {NoCwd, [given |-> TRUE, path |-> <<>>],
            [given |-> TRUE, path |-> <<"w", "d">>]}

\* A method's frame: start()'s arguments (id numbers the call; exists and
\* spawnable stand for script_path and the state of the file system), its
\* locals working_dir and cmd, the local
\* `process` of is_running and stop, the exception propagating out of stop's
\* try block, the time spent in wait(timeout=5), get_output's output_lines.
\* wrote, put and snap are history: what the call has changed so far (see
\* Wrote), the chunks it has put on the queue, the queue as it was when
\* get_output was called, and whether the call is a start() known to come
\* straight after a stop().
NoFrame ==
    [id |-> 0, exists |-> FALSE, spawnable |-> FALSE, args |-> <<>>,
     cwd |-> NoCwd, working_dir |-> <<>>,
     cmd |-> <<>>, process |-> 0,
     err |-> FALSE, clock |-> 0, output_lines |-> <<>>,
     wrote |-> {}, put |-> <<>>, snap |-> <<>>, after |-> FALSE]

\* What a caller knows once a call has returned: the method, its value
\* ("Raised": it raised instead), the return statement taken, get_output's
\* chunks, the call's history, and for is_running whether self._process named
\* a child that had not exited when the value was computed.
NoResult ==
    [op |-> "none", val |-> "None", site |-> "none", out |-> <<>>,
     wrote |-> {}, put |-> <<>>, snap |-> <<>>, after |-> FALSE,
     active |-> FALSE]

NoLine == <<0, 0>>
DiagNotFound == <<0, 1>>     \* "Error: Script not found: ...\n"
DiagStartError == <<0, 2>>   \* "Error starting script: ...\n"

\* ProcessRunner.__init__
\* ConfigManager (config.py): self._config holds the entries list and
\* log_max_lines; file is what save() wrote last; last is history: the last
\* entry method called, its index, what it returned, the entries before it
\* and whether it saved.
NoEntry == [name |-> "", script_path |-> <<>>, working_dir |-> <<>>, id |-> 0]

\* _get_default_config (config.py 40-69); an entry without an "id" key has
\* id 0.
DefaultEntries ==
    << [name |-> "Zlecenia", script_path |-> ScriptPath,
        working_dir |-> <<>>, id |-> 0],
       [name |-> "Faktury", script_path |-> ScriptPath,
        working_dir |-> <<>>, id |-> 0] >>

DefaultLogMaxLines == 1000

NoConfigCall == [op |-> "none", index |-> 0, ret |-> "None",
                 before |-> <<>>, saved |-> FALSE]

DefaultConfig ==
    [entries |-> DefaultEntries, log_max_lines |-> DefaultLogMaxLines,
     file |-> DefaultEntries, last |-> NoConfigCall]

\* LauncherApp.__init__ (app.py 23-39): no script, an empty log, one enabled
\* button per entry, Stop disabled; h is the handler being run.
NewApp ==
    [current_script |-> "", btn_stop |-> FALSE,
     entry_buttons |-> [i \in 1..Len(DefaultEntries) |-> TRUE],
     log_content |-> <<>>, log_text |-> <<>>,
     log_call |-> [op |-> "none", joined |-> <<>>],
     shown |-> {}, index |-> 0,
     destroyed |-> FALSE, h |-> "idle"]

\* ProcessRunner.__init__ (runner.py 13-24), no child spawned, no thread
\* inside a method.
InitRunner ==
    /\ process = None
    /\ running = FALSE
    /\ output_queue = <<>>
    /\ reader_thread = None
    /\ lock = "free"
    /\ child = [c \in Children |-> "unborn"]
    /\ written = [c \in Children |-> 0]
    /\ pipe = [c \in Children |-> <<>>]
    /\ closes = [c \in Children |-> 0]
    /\ sent = [c \in Children |-> {}]
    /\ pc = [t \in Callers |-> "idle"]
    /\ frame = [t \in Callers |-> NoFrame]
    /\ last = [t \in Callers |-> [NoResult EXCEPT !.op = "init"]]
    /\ drained = <<>>
    /\ rpc = [k \in Children |-> "unborn"]
    /\ rproc = [k \in Children |-> None]
    /\ rline = [k \in Children |-> NoLine]
    /\ nstarts = 0

Init ==
    /\ InitRunner
    /\ config = DefaultConfig
    /\ app = NewApp

----------------------------------------------------------------------------
\* subprocess.Popen as the runner uses it.

\* Popen.poll() is None
PollIsNone(p) == child[p] = "running"

\* Popen.poll() / Popen.wait() record the exit status of a child that exited.
Reaped(p) == [child EXCEPT ![p] = IF @ = "zombie" THEN "reaped" ELSE @]

\* A child is active: the handle is set and its child has not exited.
Active == process # None /\ child[process] = "running"

----------------------------------------------------------------------------
\* Control flow of a caller thread.  These come last in an action: they read
\* the step's effect on the runner.

\* What the step changes: fields of the runner, a process spawned, a signal
\* delivered, a reader thread started.  A change of the queue that is not an
\* append at its tail is a "dequeue".
Wrote ==
    (IF process' # process THEN {"process"} ELSE {})
    \cup (IF running' # running THEN {"running"} ELSE {})
    \cup (IF output_queue' # output_queue THEN {"output_queue"} ELSE {})
    \cup (IF \/ Len(output_queue') < Len(output_queue)
             \/ SubSeq(output_queue', 1, Len(output_queue)) # output_queue
             THEN {"dequeue"} ELSE {})
    \cup (IF reader_thread' # reader_thread THEN {"reader_thread"} ELSE {})
    \cup (IF \E c \in Children : child[c] = "unborn" /\ child'[c] # "unborn"
             THEN {"spawn"} ELSE {})
    \cup (IF sent' # sent THEN {"signal"} ELSE {})
    \cup (IF rpc' # rpc THEN {"reader"} ELSE {})

\* The chunks the call has put on the queue, this step's included.
Put(t) ==
    IF Len(output_queue') > Len(output_queue)
       THEN Append(frame[t].put, output_queue'[Len(output_queue')])
       ELSE frame[t].put

\* The method returns val from the return statement site; its frame is gone.
Return(t, op, val, site) ==
    /\ pc' = [pc EXCEPT ![t] = "idle"]
    /\ last' = [last EXCEPT ![t] =
                  [op |-> op, val |-> val, site |-> site,
                   out |-> frame[t].output_lines,
                   wrote |-> frame[t].wrote \cup Wrote,
                   put |-> Put(t),
                   snap |-> frame[t].snap,
                   after |-> frame[t].after,
                   active |-> (op = "is_running" /\ Active)]]
    /\ frame' = [frame EXCEPT ![t] = NoFrame]
    /\ drained' = IF op = "get_output"
                     THEN drained \o frame[t].output_lines
                     ELSE drained

\* The method goes on at label with the frame f.
GotoWith(t, label, f) ==
    /\ pc' = [pc EXCEPT ![t] = label]
    /\ frame' = [frame EXCEPT ![t] =
                   [f EXCEPT !.wrote = @ \cup Wrote, !.put = Put(t)]]
    /\ last' = last
    /\ drained' = drained

Goto(t, label) == GotoWith(t, label, frame[t])

\* A caller invokes a method: the previous call's result is dropped.
Invoke(t, label, f) ==
    /\ pc[t] = "idle"
    /\ pc' = [pc EXCEPT ![t] = label]
    /\ frame' = [frame EXCEPT ![t] = f]
    /\ last' = [last EXCEPT ![t] = NoResult]
    /\ drained' = drained

----------------------------------------------------------------------------
\* ProcessRunner.is_running (runner.py 26-37), called on its own.

CallIsRunning(t) ==
    /\ UNCHANGED <<runnerVars, osVars, readerVars, nstarts, uiVars>>
    /\ Invoke(t, "ir_lock", NoFrame)

\* 33-36: with self._lock: process = self._process; if process is None: return False
IrLock(t) ==
    /\ pc[t] = "ir_lock"
    /\ lock = "free"
    /\ UNCHANGED <<runnerVars, osVars, readerVars, nstarts, uiVars>>
    /\ IF process = None
          THEN Return(t, "is_running", "False", "no_handle")
          ELSE GotoWith(t, "ir_poll", [frame[t] EXCEPT !.process = process])

\* IrPoll with the poll forgotten: a handle that is set counts as running.
IrPollStale(t) ==
    /\ pc[t] = "ir_poll"
    /\ child' = Reaped(frame[t].process)
    /\ UNCHANGED <<runnerVars, readerVars, nstarts, uiVars>>
    /\ UNCHANGED <<written, pipe, closes, sent>>
    /\ Return(t, "is_running", "True", "polled")

\* 37: return process.poll() is None
IrPoll(t) ==
    /\ pc[t] = "ir_poll"
    /\ child' = Reaped(frame[t].process)
    /\ UNCHANGED <<runnerVars, readerVars, nstarts, uiVars>>
    /\ UNCHANGED <<written, pipe, closes, sent>>
    /\ Return(t, "is_running",
              IF PollIsNone(frame[t].process) THEN "True" ELSE "False", "polled")

----------------------------------------------------------------------------
\* ProcessRunner.start (runner.py 39-80).

\* 64: args.split(): the maximal runs of non-whitespace characters, in
\* order.  rest is still to be scanned, word is the run being collected.
RECURSIVE SplitFrom(_, _, _)
SplitFrom(rest, word, words) ==
    IF rest = <<>>
       THEN IF word = <<>> THEN words ELSE Append(words, word)
       ELSE IF Head(rest) \in Whitespace
               THEN SplitFrom(Tail(rest), <<>>,
                              IF word = <<>> THEN words ELSE Append(words, word))
               ELSE SplitFrom(Tail(rest), Append(word, Head(rest)), words)

\* Split passing the string on as one word.
SplitNot(str) == <<str>>

Split(str) == SplitFrom(str, <<>>, <<>>)

\* 62-64: cmd = [self.python_executable, str(script)]; if args: extend
BuildCmd(args) ==
    IF args # <<>>
       THEN <<PythonExecutable, ScriptPath>> \o Split(args)
       ELSE <<PythonExecutable, ScriptPath>>

\* `cwd if cwd`: None and the empty string are false.
Truthy(cwd) == cwd.given /\ cwd.path # <<>>

\* WorkingDir taking every cwd that is not None.
WorkingDirNotNone(cwd) == IF cwd.given THEN cwd.path ELSE ScriptParent

\* 58-59: working_dir = cwd if cwd else str(script.parent)
WorkingDir(cwd) == IF Truthy(cwd) THEN cwd.path ELSE ScriptParent

\* The caller passes a script path that exists or not, a cwd, an args string,
\* and the runner's interpreter can be spawned or not.
CallStartCwd(t, exists, spawnable, args, cwd) ==
    /\ nstarts < MaxStarts
    /\ nstarts' = nstarts + 1
    /\ UNCHANGED uiVars
    /\ UNCHANGED <<runnerVars, osVars, readerVars>>
    /\ Invoke(t, "st_lock",
              [NoFrame EXCEPT !.id = nstarts + 1, !.exists = exists,
                              !.spawnable = spawnable, !.args = args,
                              !.cwd = cwd])

\* start() called without cwd (cwd = None).
CallStartArgs(t, exists, spawnable, args) ==
    CallStartCwd(t, exists, spawnable, args, NoCwd)

\* start() called without args (args = "").
CallStart(t, exists, spawnable) == CallStartArgs(t, exists, spawnable, <<>>)

\* start() called with an existing script and a spawnable interpreter by a
\* caller whose previous call was stop(), whether it returned or raised.
CallStartAfterStop(t) ==
    /\ last[t].op = "stop"
    /\ nstarts < MaxStarts
    /\ nstarts' = nstarts + 1
    /\ UNCHANGED uiVars
    /\ UNCHANGED <<runnerVars, osVars, readerVars>>
    /\ Invoke(t, "st_lock",
              [NoFrame EXCEPT !.id = nstarts + 1, !.exists = TRUE,
                              !.spawnable = TRUE, !.after = TRUE])

\* 50 (is_running, 33-36): the handle is copied under the lock.
StLock(t) ==
    /\ pc[t] = "st_lock"
    /\ lock = "free"
    /\ UNCHANGED <<runnerVars, osVars, readerVars, nstarts, uiVars>>
    /\ GotoWith(t, IF process = None THEN "st_exists" ELSE "st_poll",
                [frame[t] EXCEPT !.process = process])

\* StPoll with the early return forgotten: start goes on whatever it polled.
StPollNoCheck(t) ==
    /\ pc[t] = "st_poll"
    /\ child' = Reaped(frame[t].process)
    /\ UNCHANGED <<runnerVars, readerVars, nstarts, uiVars>>
    /\ UNCHANGED <<written, pipe, closes, sent>>
    /\ Goto(t, "st_exists")

\* 50-51 (is_running, 37): if self.is_running: return False
StPoll(t) ==
    /\ pc[t] = "st_poll"
    /\ child' = Reaped(frame[t].process)
    /\ UNCHANGED <<runnerVars, readerVars, nstarts, uiVars>>
    /\ UNCHANGED <<written, pipe, closes, sent>>
    /\ IF PollIsNone(frame[t].process)
          THEN Return(t, "start", "False", "rejected")
          ELSE Goto(t, "st_exists")

\* StExists with the diagnostic forgotten: a missing script fails silently.
StExistsSilent(t) ==
    /\ pc[t] = "st_exists"
    /\ UNCHANGED <<runnerVars, osVars, readerVars, nstarts, uiVars>>
    /\ IF frame[t].exists
          THEN Goto(t, "st_popen")
          ELSE Return(t, "start", "False", "not_found")

\* 53-64: if not script.exists(): queue the diagnostic, return False;
\* otherwise choose working_dir and build cmd.
StExists(t) ==
    /\ pc[t] = "st_exists"
    /\ UNCHANGED <<process, running, reader_thread, lock>>
    /\ UNCHANGED <<osVars, readerVars, nstarts, uiVars>>
    /\ IF frame[t].exists
          THEN /\ output_queue' = output_queue
               /\ GotoWith(t, "st_popen",
                     [frame[t] EXCEPT
                        !.working_dir = WorkingDir(frame[t].cwd),
                        !.cmd = BuildCmd(frame[t].args)])
          ELSE /\ output_queue' = Append(output_queue, DiagNotFound)
               /\ Return(t, "start", "False", "not_found")

\* 66-74: self._process = subprocess.Popen(...).  The child spawned by the
\* n-th start() call is child n.  The new child is visible to the other
\* threads only through self._process, so spawning and assigning are one step.
StPopen(t) ==
    /\ pc[t] = "st_popen"
    /\ UNCHANGED <<running, output_queue, reader_thread, lock>>
    /\ UNCHANGED <<written, pipe, closes, sent>>
    /\ UNCHANGED <<readerVars, nstarts, uiVars>>
    /\ IF frame[t].spawnable
          THEN /\ child' = [child EXCEPT ![frame[t].id] = "running"]
               /\ process' = frame[t].id
               /\ Goto(t, "st_setrun")
          ELSE /\ UNCHANGED <<child, process>>
               /\ Goto(t, "st_except")

\* 75: self._running = True
StSetRunning(t) ==
    /\ pc[t] = "st_setrun"
    /\ running' = TRUE
    /\ UNCHANGED <<process, output_queue, reader_thread, lock>>
    /\ UNCHANGED <<osVars, readerVars, nstarts, uiVars>>
    /\ Goto(t, "st_thread")

\* StThread returning only once the child has exited.
StThreadWaitsForExit(t) ==
    /\ pc[t] = "st_thread"
    /\ ~PollIsNone(frame[t].id)
    /\ reader_thread' = frame[t].id
    /\ UNCHANGED <<process, running, output_queue, lock>>
    /\ UNCHANGED <<osVars, rproc, rline, nstarts, uiVars>>
    /\ rpc' = [rpc EXCEPT ![frame[t].id] = "getproc"]
    /\ Return(t, "start", "True", "started")

\* 76-77 (_start_reader_thread, 94-95): the Thread object is stored, then
\* started; Thread.start() raises RuntimeError when the OS refuses a thread.
StThread(t) ==
    /\ pc[t] = "st_thread"
    /\ reader_thread' = frame[t].id
    /\ UNCHANGED <<process, running, output_queue, lock>>
    /\ UNCHANGED <<osVars, rproc, rline, nstarts, uiVars>>
    /\ \E started \in BOOLEAN :
          IF started
             THEN /\ rpc' = [rpc EXCEPT ![frame[t].id] = "getproc"]
                  /\ Return(t, "start", "True", "started")
             ELSE /\ rpc' = rpc
                  /\ Goto(t, "st_except")

\* StExcept replacing the queue by the diagnostic.
StExceptClears(t) ==
    /\ pc[t] = "st_except"
    /\ output_queue' = <<DiagStartError>>
    /\ UNCHANGED <<process, running, reader_thread, lock>>
    /\ UNCHANGED <<osVars, readerVars, nstarts, uiVars>>
    /\ Return(t, "start", "False", "launch_failed")

\* 78-80: except Exception: queue the diagnostic, return False
StExcept(t) ==
    /\ pc[t] = "st_except"
    /\ output_queue' = Append(output_queue, DiagStartError)
    /\ UNCHANGED <<process, running, reader_thread, lock>>
    /\ UNCHANGED <<osVars, readerVars, nstarts, uiVars>>
    /\ Return(t, "start", "False", "launch_failed")

----------------------------------------------------------------------------
\* ProcessRunner.stop (runner.py 97-110).

CallStop(t) ==
    /\ UNCHANGED <<runnerVars, osVars, readerVars, nstarts, uiVars>>
    /\ Invoke(t, "sp_lock", NoFrame)

\* SpLock with the lock acquired by hand and not released on the early
\* return.
SpLockKeepsLock(t) ==
    /\ pc[t] = "sp_lock"
    /\ lock = "free"
    /\ lock' = t
    /\ UNCHANGED <<process, running, output_queue, reader_thread>>
    /\ UNCHANGED <<osVars, readerVars, nstarts, uiVars>>
    /\ IF process = None
          THEN Return(t, "stop", "None", "no_handle")
          ELSE GotoWith(t, "sp_term", [frame[t] EXCEPT !.process = process])

\* 99-101: with self._lock: process = self._process; if process is not None:
\* With no handle the block ends at once and the lock is released again.
SpLock(t) ==
    /\ pc[t] = "sp_lock"
    /\ lock = "free"
    /\ UNCHANGED <<process, running, output_queue, reader_thread>>
    /\ UNCHANGED <<osVars, readerVars, nstarts, uiVars>>
    /\ IF process = None
          THEN /\ lock' = lock
               /\ Return(t, "stop", "None", "no_handle")
          ELSE /\ lock' = t
               /\ GotoWith(t, "sp_term", [frame[t] EXCEPT !.process = process])

\* SpTerminate where a failing signal call leaves stop() past the finally
\* clause.
SpTerminateNoFinally(t) ==
    /\ pc[t] = "sp_term"
    /\ child' = Reaped(frame[t].process)
    /\ UNCHANGED <<runnerVars, readerVars, nstarts, uiVars>>
    /\ UNCHANGED <<written, pipe, closes>>
    /\ IF PollIsNone(frame[t].process)
          THEN \E ok \in BOOLEAN :
                  IF ok
                     THEN /\ sent' = [sent EXCEPT ![frame[t].process] = @ \cup {"term"}]
                          /\ Goto(t, "sp_wait")
                     ELSE /\ sent' = sent
                          /\ GotoWith(t, "sp_exit", [frame[t] EXCEPT !.err = TRUE])
          ELSE /\ sent' = sent
               /\ Goto(t, "sp_wait")

\* 103: process.terminate().  Popen polls first and signals only a child that
\* has not exited; the signal call can fail with an OSError.
SpTerminate(t) ==
    /\ pc[t] = "sp_term"
    /\ child' = Reaped(frame[t].process)
    /\ UNCHANGED <<runnerVars, readerVars, nstarts, uiVars>>
    /\ UNCHANGED <<written, pipe, closes>>
    /\ IF PollIsNone(frame[t].process)
          THEN \E ok \in BOOLEAN :
                  IF ok
                     THEN /\ sent' = [sent EXCEPT ![frame[t].process] = @ \cup {"term"}]
                          /\ Goto(t, "sp_wait")
                     ELSE /\ sent' = sent
                          /\ GotoWith(t, "sp_finally", [frame[t] EXCEPT !.err = TRUE])
          ELSE /\ sent' = sent
               /\ Goto(t, "sp_wait")

\* 104: process.wait(timeout=5) returns once the child has exited.
SpWait(t) ==
    /\ pc[t] = "sp_wait"
    /\ ~PollIsNone(frame[t].process)
    /\ child' = Reaped(frame[t].process)
    /\ UNCHANGED <<runnerVars, readerVars, nstarts, uiVars>>
    /\ UNCHANGED <<written, pipe, closes, sent>>
    /\ Goto(t, "sp_finally")

\* 104: one time unit passes while process.wait(timeout=5) is waiting.
SpTick(t) ==
    /\ pc[t] = "sp_wait"
    /\ PollIsNone(frame[t].process)
    /\ frame[t].clock < GracePeriod
    /\ UNCHANGED <<runnerVars, osVars, readerVars, nstarts, uiVars>>
    /\ GotoWith(t, "sp_wait", [frame[t] EXCEPT !.clock = @ + 1])

\* SpTimeout with a timeout that can expire before the grace period is over.
SpTimeoutEarly(t) ==
    /\ pc[t] = "sp_wait"
    /\ PollIsNone(frame[t].process)
    /\ UNCHANGED <<runnerVars, osVars, readerVars, nstarts, uiVars>>
    /\ Goto(t, "sp_kill")

\* 104-105: the timeout elapsed with the child still there: TimeoutExpired.
SpTimeout(t) ==
    /\ pc[t] = "sp_wait"
    /\ PollIsNone(frame[t].process)
    /\ frame[t].clock = GracePeriod
    /\ UNCHANGED <<runnerVars, osVars, readerVars, nstarts, uiVars>>
    /\ Goto(t, "sp_kill")

\* 106: process.kill(), inside the except clause: an OSError it raises
\* leaves through finally.
SpKill(t) ==
    /\ pc[t] = "sp_kill"
    /\ UNCHANGED <<runnerVars, readerVars, nstarts, uiVars>>
    /\ UNCHANGED <<written, pipe, closes>>
    /\ IF PollIsNone(frame[t].process)
          THEN \E ok \in BOOLEAN :
                  IF ok
                     THEN /\ sent' = [sent EXCEPT ![frame[t].process] = @ \cup {"kill"}]
                          /\ child' = [child EXCEPT ![frame[t].process] = "zombie"]
                          /\ Goto(t, "sp_reap")
                     ELSE /\ UNCHANGED <<sent, child>>
                          /\ GotoWith(t, "sp_finally", [frame[t] EXCEPT !.err = TRUE])
          ELSE /\ sent' = sent
               /\ child' = Reaped(frame[t].process)
               /\ Goto(t, "sp_reap")

\* 107: process.wait() returns once the child has exited, or fails.
SpReap(t) ==
    /\ pc[t] = "sp_reap"
    /\ UNCHANGED <<runnerVars, readerVars, nstarts, uiVars>>
    /\ UNCHANGED <<written, pipe, closes, sent>>
    /\ \/ /\ ~PollIsNone(frame[t].process)
          /\ child' = Reaped(frame[t].process)
          /\ Goto(t, "sp_finally")
       \/ /\ child' = child
          /\ GotoWith(t, "sp_finally", [frame[t] EXCEPT !.err = TRUE])

\* SpFinally with the handle left in place: only the flag is reset.
SpFinallyKeepsHandle(t) ==
    /\ pc[t] = "sp_finally"
    /\ running' = FALSE
    /\ UNCHANGED <<process, output_queue, reader_thread, lock>>
    /\ UNCHANGED <<osVars, readerVars, nstarts, uiVars>>
    /\ Goto(t, "sp_exit")

\* 108-110: finally: self._process = None; self._running = False
SpFinally(t) ==
    /\ pc[t] = "sp_finally"
    /\ process' = None
    /\ running' = FALSE
    /\ UNCHANGED <<output_queue, reader_thread, lock>>
    /\ UNCHANGED <<osVars, readerVars, nstarts, uiVars>>
    /\ Goto(t, "sp_exit")

\* SpExit leaving the with block without releasing the lock.
SpExitKeepsLock(t) ==
    /\ pc[t] = "sp_exit"
    /\ UNCHANGED <<runnerVars, osVars, readerVars, nstarts, uiVars>>
    /\ Return(t, "stop", IF frame[t].err THEN "Raised" ELSE "None", "stopped")

\* 99: the with block ends: the lock is released, then stop returns None or
\* the exception raised in the block goes on to stop's caller.
SpExit(t) ==
    /\ pc[t] = "sp_exit"
    /\ lock' = "free"
    /\ UNCHANGED <<process, running, output_queue, reader_thread>>
    /\ UNCHANGED <<osVars, readerVars, nstarts, uiVars>>
    /\ Return(t, "stop", IF frame[t].err THEN "Raised" ELSE "None", "stopped")

----------------------------------------------------------------------------
\* ProcessRunner.get_output (runner.py 112-125).

\* 118: output_lines = []
CallGetOutput(t) ==
    /\ UNCHANGED <<runnerVars, osVars, readerVars, nstarts, uiVars>>
    /\ Invoke(t, "go_get", [NoFrame EXCEPT !.snap = output_queue])

\* GoGet taking the newest chunk instead of the oldest.
GoGetNewest(t) ==
    /\ pc[t] = "go_get"
    /\ UNCHANGED <<process, running, reader_thread, lock>>
    /\ UNCHANGED <<osVars, readerVars, nstarts, uiVars>>
    /\ IF output_queue = <<>>
          THEN /\ output_queue' = output_queue
               /\ Return(t, "get_output", "Str", "drained")
          ELSE /\ output_queue' = SubSeq(output_queue, 1, Len(output_queue) - 1)
               /\ GotoWith(t, "go_get",
                     [frame[t] EXCEPT !.output_lines =
                         Append(@, output_queue[Len(output_queue)])])

\* 119-125: one turn of the loop: get_nowait() hands over the oldest chunk,
\* or raises queue.Empty and the joined lines are returned.
GoGet(t) ==
    /\ pc[t] = "go_get"
    /\ UNCHANGED <<process, running, reader_thread, lock>>
    /\ UNCHANGED <<osVars, readerVars, nstarts, uiVars>>
    /\ IF output_queue = <<>>
          THEN /\ output_queue' = output_queue
               /\ Return(t, "get_output", "Str", "drained")
          ELSE /\ output_queue' = Tail(output_queue)
               /\ GotoWith(t, "go_get",
                     [frame[t] EXCEPT !.output_lines = Append(@, Head(output_queue))])

----------------------------------------------------------------------------
\* read_output, the reader thread's body (runner.py 84-92).

\* 85-87: with self._lock: process = self._process; if process and process.stdout:
RGetProc(k) ==
    /\ rpc[k] = "getproc"
    /\ lock = "free"
    /\ rproc' = [rproc EXCEPT ![k] = process]
    /\ rpc' = [rpc EXCEPT ![k] = IF process = None THEN "flag" ELSE "read"]
    /\ UNCHANGED <<runnerVars, osVars, callerVars, rline, nstarts, uiVars>>

\* 88: for line in process.stdout: the next line of the pipe is read.
\* Reading a stream another thread has closed raises ValueError, which ends
\* the thread.
RRead(k) ==
    /\ rpc[k] = "read"
    /\ IF closes[rproc[k]] > 0
          THEN /\ rpc' = [rpc EXCEPT ![k] = "died"]
               /\ UNCHANGED <<pipe, rline>>
          ELSE /\ pipe[rproc[k]] # <<>>
               /\ rline' = [rline EXCEPT ![k] = Head(pipe[rproc[k]])]
               /\ pipe' = [pipe EXCEPT ![rproc[k]] = Tail(@)]
               /\ rpc' = [rpc EXCEPT ![k] = "put"]
    /\ UNCHANGED <<runnerVars, callerVars, rproc, nstarts, uiVars>>
    /\ UNCHANGED <<child, written, closes, sent>>

\* RPut putting the line at the head of the queue.
RPutFront(k) ==
    /\ rpc[k] = "put"
    /\ output_queue' = <<rline[k]>> \o output_queue
    /\ rline' = [rline EXCEPT ![k] = NoLine]
    /\ rpc' = [rpc EXCEPT ![k] = "read"]
    /\ UNCHANGED <<process, running, reader_thread, lock>>
    /\ UNCHANGED <<osVars, callerVars, rproc, nstarts, uiVars>>

\* 89: self._output_queue.put(line)
RPut(k) ==
    /\ rpc[k] = "put"
    /\ output_queue' = Append(output_queue, rline[k])
    /\ rline' = [rline EXCEPT ![k] = NoLine]
    /\ rpc' = [rpc EXCEPT ![k] = "read"]
    /\ UNCHANGED <<process, running, reader_thread, lock>>
    /\ UNCHANGED <<osVars, callerVars, rproc, nstarts, uiVars>>

\* 88: the loop ends at end-of-stream: the pipe is empty and the child, the
\* only writer, has exited.
REof(k) ==
    /\ rpc[k] = "read"
    /\ closes[rproc[k]] = 0
    /\ pipe[rproc[k]] = <<>>
    /\ ~PollIsNone(rproc[k])
    /\ rpc' = [rpc EXCEPT ![k] = "close"]
    /\ UNCHANGED <<runnerVars, osVars, callerVars, rproc, rline, nstarts, uiVars>>

\* 90: process.stdout.close()
RClose(k) ==
    /\ rpc[k] = "close"
    /\ closes' = [closes EXCEPT ![rproc[k]] = @ + 1]
    /\ rpc' = [rpc EXCEPT ![k] = "flag"]
    /\ UNCHANGED <<runnerVars, callerVars, rproc, rline, nstarts, uiVars>>
    /\ UNCHANGED <<child, written, pipe, sent>>

\* RFlag clearing the handle as well, as stop() does.
RFlagClearsHandle(k) ==
    /\ rpc[k] = "flag"
    /\ lock = "free"
    /\ running' = FALSE
    /\ process' = None
    /\ rpc' = [rpc EXCEPT ![k] = "done"]
    /\ UNCHANGED <<output_queue, reader_thread, lock>>
    /\ UNCHANGED <<osVars, callerVars, rproc, rline, nstarts, uiVars>>

\* 91-92: with self._lock: self._running = False
RFlag(k) ==
    /\ rpc[k] = "flag"
    /\ lock = "free"
    /\ running' = FALSE
    /\ rpc' = [rpc EXCEPT ![k] = "done"]
    /\ UNCHANGED <<process, output_queue, reader_thread, lock>>
    /\ UNCHANGED <<osVars, callerVars, rproc, rline, nstarts, uiVars>>

----------------------------------------------------------------------------
\* The child process: the script run by the interpreter.

\* The child writes its next line to stdout (stderr is the same pipe), as
\* long as it has written fewer than n.
ChildWriteUpTo(c, n) ==
    /\ child[c] = "running"
    /\ written[c] < n
    /\ written' = [written EXCEPT ![c] = @ + 1]
    /\ pipe' = [pipe EXCEPT ![c] = Append(@, <<c, written[c] + 1>>)]
    /\ UNCHANGED <<runnerVars, callerVars, readerVars, nstarts, uiVars>>
    /\ UNCHANGED <<child, closes, sent>>

ChildWrite(c) == ChildWriteUpTo(c, MaxLines)

\* The child exits: on its own, or because it was asked to terminate.
ChildExit(c) ==
    /\ child[c] = "running"
    /\ child' = [child EXCEPT ![c] = "zombie"]
    /\ UNCHANGED <<runnerVars, callerVars, readerVars, nstarts, uiVars>>
    /\ UNCHANGED <<written, pipe, closes, sent>>

----------------------------------------------------------------------------
\* ConfigManager's entry methods (config.py 161-274).

\* What a dialog can hand to add_entry and update_entry.
EntryArgs ==
    { [name |-> "A", script_path |-> ScriptPath, working_dir |-> <<>>,
       id |-> 0],
      [name |-> "B", script_path |-> <<>>, working_dir |-> <<"w", "d">>,
       id |-> 7] }

\* The indexes a caller can pass: Python ints, negative ones included.
Indexes == (0 - (MaxEntries + 1))..(MaxEntries + 1)

\* The position in the sequence of entries[index] of a Python list: index 0
\* is the first element, index -1 the last.
At(index, entries) ==
    IF index < 0 THEN Len(entries) + index + 1 ELSE index + 1

\* list.pop(index)
Pop(index, entries) ==
    SubSeq(entries, 1, At(index, entries) - 1)
        \o SubSeq(entries, At(index, entries) + 1, Len(entries))

\* ValidIndex accepting what a Python list accepts as an index.
ValidIndexWraps(index, entries) ==
    (0 - Len(entries)) <= index /\ index < Len(entries)

\* 225, 270: if 0 <= index < len(entries)
ValidIndex(index, entries) == 0 <= index /\ index < Len(entries)

\* 161-196: add_entry appends the entry and saves.
AddEntry(e) ==
    /\ Len(config.entries) < MaxEntries
    /\ config' = [config EXCEPT
                    !.entries = Append(@, e),
                    !.file = Append(config.entries, e),
                    !.last = [op |-> "add_entry", index |-> Len(config.entries),
                              ret |-> "None", before |-> config.entries,
                              saved |-> TRUE]]
    /\ UNCHANGED <<runnerVars, osVars, callerVars, readerVars, nstarts, app>>

\* 198-255: update_entry replaces entries[index] by a new dict that keeps the
\* old entry's id if it had one, saves and returns True; an invalid index
\* returns False.
UpdateEntry(index, e) ==
    /\ LET entries == config.entries
           pos == At(index, entries)
           entry == [e EXCEPT !.id = IF entries[pos].id # 0
                                        THEN entries[pos].id ELSE e.id]
       IN  IF ValidIndex(index, entries)
              THEN config' = [config EXCEPT
                                !.entries = [entries EXCEPT ![pos] = entry],
                                !.file = [entries EXCEPT ![pos] = entry],
                                !.last = [op |-> "update_entry",
                                          index |-> index, ret |-> "True",
                                          before |-> entries, saved |-> TRUE]]
              ELSE config' = [config EXCEPT
                                !.last = [op |-> "update_entry",
                                          index |-> index, ret |-> "False",
                                          before |-> entries, saved |-> FALSE]]
    /\ UNCHANGED <<runnerVars, osVars, callerVars, readerVars, nstarts, app>>

\* 257-274: remove_entry pops entries[index], saves and returns True; an
\* invalid index returns False.
RemoveEntry(index) ==
    /\ LET entries == config.entries
       IN  IF ValidIndex(index, entries)
              THEN config' = [config EXCEPT
                                !.entries = Pop(index, entries),
                                !.file = Pop(index, entries),
                                !.last = [op |-> "remove_entry",
                                          index |-> index, ret |-> "True",
                                          before |-> entries, saved |-> TRUE]]
              ELSE config' = [config EXCEPT
                                !.last = [op |-> "remove_entry",
                                          index |-> index, ret |-> "False",
                                          before |-> entries, saved |-> FALSE]]
    /\ UNCHANGED <<runnerVars, osVars, callerVars, readerVars, nstarts, app>>

----------------------------------------------------------------------------
\* LauncherApp's log (app.py 218-260).  Texts are sequences of characters.

LogChars == {"x", "\n"}
LogTexts == UNION {[1..n -> LogChars] : n \in 1..MaxTextLen}

\* str.split("\n"): the pieces between the newlines, empty ones included; a
\* text with n newlines has n + 1 pieces.
RECURSIVE SplitLinesFrom(_, _, _)
SplitLinesFrom(rest, piece, pieces) ==
    IF rest = <<>> THEN Append(pieces, piece)
    ELSE IF Head(rest) = "\n"
            THEN SplitLinesFrom(Tail(rest), <<>>, Append(pieces, piece))
            ELSE SplitLinesFrom(Tail(rest), Append(piece, Head(rest)), pieces)

SplitLines(text) == SplitLinesFrom(text, <<>>, <<>>)

\* "\n".join(lines)
RECURSIVE JoinLines(_)
JoinLines(lines) ==
    IF lines = <<>> THEN <<>>
    ELSE IF Len(lines) = 1 THEN lines[1]
    ELSE lines[1] \o <<"\n">> \o JoinLines(Tail(lines))

\* lines[-n:] of a Python list for n >= 0: -0 is 0, so n = 0 gives the whole
\* list; otherwise the slice starts n elements before the end, or at the
\* start of a shorter list.
LastLines(lines, n) ==
    IF n = 0 \/ n >= Len(lines) THEN lines
    ELSE SubSeq(lines, Len(lines) - n + 1, Len(lines))

\* 218-237 (with _update_log_display, 239-245): the app after
\* _append_to_log(text).  log_call is history: the method called last and
\* log_content + text as it was before truncation.
AppendedToLog(a, text, max_lines) ==
    LET content == a.log_content \o text
        lines == SplitLines(content)
        call == [op |-> "append", joined |-> content]
    IN  IF Len(lines) > max_lines
           THEN [a EXCEPT !.log_content = JoinLines(LastLines(lines, max_lines)),
                          !.log_text = JoinLines(LastLines(lines, max_lines)),
                          !.log_call = call]
           ELSE [a EXCEPT !.log_content = content,
                          !.log_text = a.log_text \o text,
                          !.log_call = call]

\* _append_to_log(text) called on its own.
AppendToLog(text) ==
    /\ Len(app.log_content) + Len(text) <= MaxLogLen
    /\ app' = AppendedToLog(app, text, config.log_max_lines)
    /\ UNCHANGED <<runnerVars, osVars, callerVars, readerVars, nstarts, config>>

\* 257-260: _on_clear empties log_content and refreshes the widget.
OnClear ==
    /\ app' = [app EXCEPT !.log_content = <<>>, !.log_text = <<>>,
                          !.log_call = [op |-> "clear", joined |-> <<>>]]
    /\ UNCHANGED <<runnerVars, osVars, callerVars, readerVars, nstarts, config>>

----------------------------------------------------------------------------
\* LauncherApp's event handlers (app.py 134-269).  They run on the UI thread,
\* one at a time; a handler that calls the runner goes on when the call has
\* returned.

Ui == "c1"

\* The event loop is idle: no handler is running and the window exists.
UiIdle == app.h = "idle" /\ pc[Ui] = "idle" /\ ~app.destroyed

Digits == <<"0", "1", "2", "3", "4", "5", "6", "7", "8", "9">>

\* The text of a chunk: a line of a child, or a diagnostic, with its newline.
ChunkText(chunk) == <<Digits[chunk[1] + 1], Digits[chunk[2] + 1], "\n">>

\* runner.py 125: "".join(output_lines)
RECURSIVE OutputText(_)
OutputText(chunks) ==
    IF chunks = <<>> THEN <<>>
    ELSE ChunkText(Head(chunks)) \o OutputText(Tail(chunks))

\* 184: "\n" + LOG_SEPARATOR + "\nUruchamianie {name}...\n" + LOG_SEPARATOR + "\n"
StartBanner(name) == <<"\n", "=", "\n", "Uruchamianie ", name, "\n", "=", "\n">>

\* 251: "\n[ZATRZYMANO] {name} ...\n"
StopNotice(name) == <<"\n", "[ZATRZYMANO] ", name, "\n">>

\* 187-194: _set_buttons_state
SetButtonsState(a, enabled) ==
    [a EXCEPT !.entry_buttons = [i \in DOMAIN @ |-> enabled]]

\* 134-155: _refresh_entry_buttons, the callback the configuration window
\* calls after every change (388-389, 410-411, 425-426, 440-441): the buttons
\* are destroyed and one new button, enabled, is created per entry.
OnRefresh ==
    /\ UiIdle
    /\ app' = [app EXCEPT
                 !.entry_buttons = [i \in 1..Len(config.entries) |-> TRUE]]
    /\ UNCHANGED <<runnerVars, osVars, callerVars, readerVars, nstarts, config>>

\* 157-183: the user clicks the enabled button of entry index; unless the
\* index is stale or the entry has no script path, runner.start is called
\* with the entry's working_dir or None.
OnEntryClick(index, exists, spawnable) ==
    /\ UiIdle
    /\ index + 1 \in DOMAIN app.entry_buttons
    /\ app.entry_buttons[index + 1]
    /\ UNCHANGED <<runnerVars, osVars, readerVars, config>>
    /\ IF \/ index >= Len(config.entries)
          \/ config.entries[index + 1].script_path = <<>>
          THEN UNCHANGED <<callerVars, nstarts, app>>
          ELSE /\ nstarts < MaxLaunches
               /\ nstarts' = nstarts + 1
               /\ app' = [app EXCEPT !.h = "click", !.index = index]
               /\ LET working_dir == config.entries[index + 1].working_dir
                  IN  Invoke(Ui, "st_lock",
                        [NoFrame EXCEPT
                           !.id = nstarts + 1, !.exists = exists,
                           !.spawnable = spawnable,
                           !.cwd = IF working_dir # <<>>
                                      THEN [given |-> TRUE, path |-> working_dir]
                                      ELSE NoCwd])

\* 180-184: start returned: on True the script is recorded, the entry buttons
\* are disabled, Stop is enabled and the banner is logged.
OnEntryClickStarted ==
    /\ app.h = "click"
    /\ pc[Ui] = "idle"
    /\ app' = IF last[Ui].val = "True"
                 THEN AppendedToLog(
                        [SetButtonsState(app, FALSE) EXCEPT
                           !.current_script = config.entries[app.index + 1].name,
                           !.btn_stop = TRUE, !.h = "idle", !.index = 0],
                        StartBanner(config.entries[app.index + 1].name),
                        config.log_max_lines)
                 ELSE [app EXCEPT !.h = "idle", !.index = 0]
    /\ UNCHANGED <<runnerVars, osVars, callerVars, readerVars, nstarts, config>>

\* 208: if self.current_script and not self.runner.is_running: is_running is
\* read only when a script is recorded; otherwise _update is over (215: the
\* next tick is scheduled).  a is the app with the log as _update left it.
UpdateCheckFinished(a) ==
    IF a.current_script # ""
       THEN /\ app' = [a EXCEPT !.h = "upd_finished"]
            /\ Invoke(Ui, "ir_lock", NoFrame)
       ELSE /\ app' = [a EXCEPT !.h = "idle"]
            /\ UNCHANGED callerVars

\* 200-203: a poll tick: _update reads runner.is_running.
Update ==
    /\ UiIdle
    /\ app' = [app EXCEPT !.h = "upd_running"]
    /\ UNCHANGED <<runnerVars, osVars, readerVars, nstarts, config>>
    /\ Invoke(Ui, "ir_lock", NoFrame)

\* 203-204: if it is True, get_output is called.
UpdateRunning ==
    /\ app.h = "upd_running"
    /\ pc[Ui] = "idle"
    /\ UNCHANGED <<runnerVars, osVars, readerVars, nstarts, config>>
    /\ IF last[Ui].val = "True"
          THEN /\ app' = [app EXCEPT !.h = "upd_output"]
               /\ Invoke(Ui, "go_get", [NoFrame EXCEPT !.snap = output_queue])
          ELSE UpdateCheckFinished(app)

\* 205-206: if output: self._append_to_log(output).  shown is history: the
\* chunks _update has appended to the log.
UpdateOutput ==
    /\ app.h = "upd_output"
    /\ pc[Ui] = "idle"
    /\ UNCHANGED <<runnerVars, osVars, readerVars, nstarts, config>>
    /\ UpdateCheckFinished(
          IF last[Ui].out # <<>>
             THEN [AppendedToLog(app, OutputText(last[Ui].out),
                                 config.log_max_lines)
                     EXCEPT !.shown = @ \cup {last[Ui].out[i] :
                                                i \in 1..Len(last[Ui].out)}]
             ELSE app)

\* 208-213: the script has finished: the entry buttons are enabled, Stop is
\* disabled, no script is recorded.
UpdateFinished ==
    /\ app.h = "upd_finished"
    /\ pc[Ui] = "idle"
    /\ app' = IF last[Ui].val = "False"
                 THEN [SetButtonsState(app, TRUE) EXCEPT
                         !.btn_stop = FALSE, !.current_script = "",
                         !.h = "idle"]
                 ELSE [app EXCEPT !.h = "idle"]
    /\ UNCHANGED <<runnerVars, osVars, callerVars, readerVars, nstarts, config>>

\* 247-249: the user clicks the enabled Stop button: _on_stop reads
\* runner.is_running.
OnStop ==
    /\ UiIdle
    /\ app.btn_stop
    /\ app' = [app EXCEPT !.h = "stop_running"]
    /\ UNCHANGED <<runnerVars, osVars, readerVars, nstarts, config>>
    /\ Invoke(Ui, "ir_lock", NoFrame)

\* 249-250: if it is True, runner.stop() is called.
OnStopRunning ==
    /\ app.h = "stop_running"
    /\ pc[Ui] = "idle"
    /\ UNCHANGED <<runnerVars, osVars, readerVars, nstarts, config>>
    /\ IF last[Ui].val = "True"
          THEN /\ app' = [app EXCEPT !.h = "stop_stop"]
               /\ Invoke(Ui, "sp_lock", NoFrame)
          ELSE /\ app' = [app EXCEPT !.h = "idle"]
               /\ UNCHANGED callerVars

\* 251-255: stop returned: the notice is logged, the entry buttons are
\* enabled, Stop is disabled, no script is recorded.  An exception raised by
\* stop ends the handler where it is.
OnStopStopped ==
    /\ app.h = "stop_stop"
    /\ pc[Ui] = "idle"
    /\ app' = IF last[Ui].val = "Raised"
                 THEN [app EXCEPT !.h = "idle"]
                 ELSE [SetButtonsState(
                         AppendedToLog(app, StopNotice(app.current_script),
                                       config.log_max_lines), TRUE)
                         EXCEPT !.btn_stop = FALSE, !.current_script = "",
                                !.h = "idle"]
    /\ UNCHANGED <<runnerVars, osVars, callerVars, readerVars, nstarts, config>>

\* 266-268: the window is closed: _on_close calls runner.stop().
OnClose ==
    /\ UiIdle
    /\ app' = [app EXCEPT !.h = "close"]
    /\ UNCHANGED <<runnerVars, osVars, readerVars, nstarts, config>>
    /\ Invoke(Ui, "sp_lock", NoFrame)

\* 269: self.root.destroy(), unless stop raised.
OnCloseDestroy ==
    /\ app.h = "close"
    /\ pc[Ui] = "idle"
    /\ app' = IF last[Ui].val = "Raised"
                 THEN [app EXCEPT !.h = "idle"]
                 ELSE [app EXCEPT !.h = "idle", !.destroyed = TRUE]
    /\ UNCHANGED <<runnerVars, osVars, callerVars, readerVars, nstarts, config>>

----------------------------------------------------------------------------
\* A thread that uses the whole interface.
CallerStep(t) ==
    \/ CallIsRunning(t) \/ IrLock(t) \/ IrPoll(t)
    \/ \E exists \in BOOLEAN, spawnable \in BOOLEAN : CallStart(t, exists, spawnable)
    \/ StLock(t) \/ StPoll(t) \/ StExists(t) \/ StPopen(t)
    \/ StSetRunning(t) \/ StThread(t) \/ StExcept(t)
    \/ CallStop(t) \/ SpLock(t) \/ SpTerminate(t) \/ SpWait(t) \/ SpTick(t)
    \/ SpTimeout(t) \/ SpKill(t) \/ SpReap(t) \/ SpFinally(t) \/ SpExit(t)
    \/ CallGetOutput(t) \/ GoGet(t)

ReaderStep(k) ==
    RGetProc(k) \/ RRead(k) \/ RPut(k) \/ REof(k) \/ RClose(k) \/ RFlag(k)

ChildStep(c) ==
    ChildWrite(c) \/ ChildExit(c)

\* One thread, the launcher's UI thread, calls the runner; the readers and
\* the children run beside it.
Next ==
    \/ CallerStep("c1")
    \/ \E k \in Children : ReaderStep(k)
    \/ \E c \in Children : ChildStep(c)

Spec == Init /\ [][Next]_vars

\* A thread that starts, stops and polls, always with a script that exists
\* and an interpreter that can be spawned.
ThreadStep(t) ==
    \/ CallIsRunning(t) \/ IrLock(t) \/ IrPoll(t)
    \/ CallStart(t, TRUE, TRUE)
    \/ StLock(t) \/ StPoll(t) \/ StExists(t) \/ StPopen(t)
    \/ StSetRunning(t) \/ StThread(t) \/ StExcept(t)
    \/ CallStop(t) \/ SpLock(t) \/ SpTerminate(t) \/ SpWait(t) \/ SpTick(t)
    \/ SpTimeout(t) \/ SpKill(t) \/ SpReap(t) \/ SpFinally(t) \/ SpExit(t)

SilentReaderStep(k) ==
    RGetProc(k) \/ RRead(k) \/ REof(k) \/ RClose(k) \/ RFlag(k)

\* A thread that starts and polls, and leaves stopping to the other thread.
PollerStep(t) ==
    \/ CallIsRunning(t) \/ IrLock(t) \/ IrPoll(t)
    \/ CallStart(t, TRUE, TRUE)
    \/ StLock(t) \/ StPoll(t) \/ StExists(t) \/ StPopen(t)
    \/ StSetRunning(t) \/ StThread(t) \/ StExcept(t)

\* Two threads call the runner concurrently; the children write nothing.
NextThreads ==
    \/ ThreadStep("c1")
    \/ PollerStep("c2")
    \/ \E k \in Children : SilentReaderStep(k)
    \/ \E c \in Children : ChildExit(c)

SpecThreads == Init /\ [][NextThreads]_vars

\* The launcher runs one script: start() is called once, and the script
\* writes up to MaxChunks lines.  With the handle None at that one call,
\* start never reaches the poll of line 50.
OutputCallerStep(t) ==
    \/ CallIsRunning(t) \/ IrLock(t) \/ IrPoll(t)
    \/ /\ nstarts = 0
       /\ \E exists \in BOOLEAN, spawnable \in BOOLEAN : CallStart(t, exists, spawnable)
    \/ StLock(t) \/ StExists(t) \/ StPopen(t)
    \/ StSetRunning(t) \/ StThread(t) \/ StExcept(t)
    \/ CallStop(t) \/ SpLock(t) \/ SpTerminate(t) \/ SpWait(t) \/ SpTick(t)
    \/ SpTimeout(t) \/ SpKill(t) \/ SpReap(t) \/ SpFinally(t) \/ SpExit(t)
    \/ CallGetOutput(t) \/ GoGet(t)

NextOutput ==
    \/ OutputCallerStep("c1")
    \/ \E k \in Children : ReaderStep(k)
    \/ \E c \in Children : ChildWriteUpTo(c, MaxChunks) \/ ChildExit(c)

SpecOutput == Init /\ [][NextOutput]_vars

\* One thread starts, stops and polls, with a script that exists; the
\* children write nothing.
NextLifecycle ==
    \/ ThreadStep("c1")
    \/ \E k \in Children : SilentReaderStep(k)
    \/ \E c \in Children : ChildExit(c)

SpecLifecycle == Init /\ [][NextLifecycle]_vars

\* One thread uses the runner in any way, its start() calls failing or not,
\* and restarts a script after a stop().
ReuseCallerStep(t) ==
    \/ CallIsRunning(t) \/ IrLock(t) \/ IrPoll(t)
    \/ \E exists \in BOOLEAN, spawnable \in BOOLEAN : CallStart(t, exists, spawnable)
    \/ CallStartAfterStop(t)
    \/ StLock(t) \/ StPoll(t) \/ StExists(t) \/ StPopen(t)
    \/ StSetRunning(t) \/ StThread(t) \/ StExcept(t)
    \/ CallStop(t) \/ SpLock(t) \/ SpTerminate(t) \/ SpWait(t) \/ SpTick(t)
    \/ SpTimeout(t) \/ SpKill(t) \/ SpReap(t) \/ SpFinally(t) \/ SpExit(t)

NextReuse ==
    \/ ReuseCallerStep("c1")
    \/ \E k \in Children : SilentReaderStep(k)
    \/ \E c \in Children : ChildExit(c)

SpecReuse == Init /\ [][NextReuse]_vars

\* One thread starts scripts with all kinds of args strings and cwds.
CmdCallerStep(t) ==
    \/ \E args \in ArgStrings, cwd \in CwdArgs :
          CallStartCwd(t, TRUE, TRUE, args, cwd)
    \/ StLock(t) \/ StPoll(t) \/ StExists(t) \/ StPopen(t)
    \/ StSetRunning(t) \/ StThread(t) \/ StExcept(t)

NextCmd ==
    \/ CmdCallerStep("c1")
    \/ \E k \in Children : SilentReaderStep(k)
    \/ \E c \in Children : ChildExit(c)

SpecCmd == Init /\ [][NextCmd]_vars

\* The configuration window adds, edits and removes entries.
NextConfig ==
    \/ \E e \in EntryArgs : AddEntry(e)
    \/ \E index \in Indexes, e \in EntryArgs : UpdateEntry(index, e)
    \/ \E index \in Indexes : RemoveEntry(index)

SpecConfig == Init /\ [][NextConfig]_vars

\* The log on its own, for every small log_max_lines the configuration file
\* can hold.
InitLog ==
    /\ InitRunner
    /\ \E m \in 0..MaxLogLines :
          config = [DefaultConfig EXCEPT !.log_max_lines = m]
    /\ app = NewApp

NextLog ==
    \/ \E text \in LogTexts : AppendToLog(text)
    \/ OnClear

SpecLog == InitLog /\ [][NextLog]_vars

\* The launcher: the UI thread runs the handlers of the user's clicks, of the
\* poll ticks and of the refreshes the configuration window asks for, and
\* inside them the runner's methods; reader threads and children run beside
\* it.  One script is launched: with the handle None at that call, start
\* never reaches the poll of line 50.
UiMethodStep ==
    \/ IrLock(Ui) \/ IrPoll(Ui)
    \/ StLock(Ui) \/ StExists(Ui) \/ StPopen(Ui)
    \/ StSetRunning(Ui) \/ StThread(Ui) \/ StExcept(Ui)
    \/ SpLock(Ui) \/ SpTerminate(Ui) \/ SpWait(Ui) \/ SpTick(Ui)
    \/ SpTimeout(Ui) \/ SpKill(Ui) \/ SpReap(Ui) \/ SpFinally(Ui) \/ SpExit(Ui)
    \/ GoGet(Ui)

\* The steps of the poll loop and of a handler that has begun.
UiRun ==
    \/ Update \/ UpdateRunning \/ UpdateOutput \/ UpdateFinished
    \/ OnEntryClickStarted \/ OnStopRunning \/ OnStopStopped \/ OnCloseDestroy
    \/ UiMethodStep

UiEvent ==
    \/ \E index \in 0..(MaxEntries - 1), exists \in BOOLEAN, spawnable \in BOOLEAN :
          OnEntryClick(index, exists, spawnable)
    \/ OnStop
    \/ OnClose
    \/ OnRefresh

NextApp ==
    \/ UiEvent
    \/ UiRun
    \/ \E k \in Children : ReaderStep(k)
    \/ \E c \in Children : ChildStep(c)

SpecApp == Init /\ [][NextApp]_vars

\* The statements of a method that is being executed: a thread that has
\* entered a method goes on executing it.
MethodStep(t) ==
    \/ IrLock(t) \/ IrPoll(t)
    \/ StLock(t) \/ StPoll(t) \/ StExists(t) \/ StPopen(t)
    \/ StSetRunning(t) \/ StThread(t) \/ StExcept(t)
    \/ SpLock(t) \/ SpTerminate(t) \/ SpWait(t) \/ SpTick(t)
    \/ SpTimeout(t) \/ SpKill(t) \/ SpReap(t) \/ SpFinally(t) \/ SpExit(t)

\* The calling thread is scheduled; nothing is assumed of the children or of
\* the reader threads.
FairCallers == SpecLifecycle /\ WF_vars(MethodStep("c1"))

\* The reader threads are scheduled too, and get the lock when it is free
\* again and again.
FairLifecycle ==
    FairCallers /\ \A k \in Children : SF_vars(SilentReaderStep(k))

\* The launcher with its poll loop ticking: the UI thread goes on with the
\* handler it is in and runs _update again and again; the reader threads are
\* scheduled and get the lock when it is free again and again.
FairApp ==
    SpecApp /\ WF_vars(UiRun) /\ \A k \in Children : SF_vars(ReaderStep(k))

----------------------------------------------------------------------------
\* Properties.

StartBody == {"st_exists", "st_popen", "st_setrun", "st_thread", "st_except"}
StopBody == {"sp_term", "sp_wait", "sp_kill", "sp_reap", "sp_finally", "sp_exit"}
Live == {c \in Children : child[c] = "running"}

\* s is a prefix of q.
IsPrefix(s, q) == Len(s) <= Len(q) /\ SubSeq(q, 1, Len(s)) = s

\* C1: a start() that finds a child active returns False from its first
\* return statement and has changed nothing: no field of the runner written,
\* no process spawned, no signal delivered, no reader started, nothing queued;
\* afterwards the handle still names the first child, which was never
\* signalled.  And start gets past that return only if the handle it read
\* was None or named a child that had exited.
C1_ActiveStartRejected ==
    \A t \in Callers :
        /\ pc[t] \in StartBody =>
              \/ frame[t].process = None
              \/ child[frame[t].process] # "running"
        /\ last[t].site = "rejected" =>
              /\ last[t].op = "start"
              /\ last[t].val = "False"
              /\ last[t].wrote = {}
              /\ last[t].put = <<>>
              /\ process # None
              /\ child[process] # "unborn"
              /\ sent[process] = {}

\* A start() has just been refused and the first child is still running.
C1_Witness ==
    /\ pc["c1"] = "idle"
    /\ last["c1"].site = "rejected"
    /\ Active

\* C2: when every thread's last call is a start() that returned True, at
\* most one child is alive: concurrent start() calls do not both spawn.
C2_OneStartWins ==
    (\A t \in Callers : pc[t] = "idle" /\ last[t].site = "started")
        => Cardinality(Live) <= 1

\* C3: right after construction (no method called yet) and right after a
\* stop() that returned, the handle is None and is_running is False.
C3_IdleAfterStop ==
    /\ (\A t \in Callers : pc[t] = "idle" /\ last[t].op = "init")
          => (process = None /\ ~Active)
    /\ \A t \in Callers :
          (pc[t] = "idle" /\ last[t].op = "stop" /\ last[t].val = "None")
             => (process = None /\ ~Active)

\* stop() has returned after a graceful termination of child 1.
C3_Witness ==
    /\ pc["c1"] = "idle"
    /\ last["c1"].op = "stop"
    /\ last["c1"].site = "stopped"
    /\ last["c1"].val = "None"
    /\ sent[1] = {"term"}
    /\ child[1] = "reaped"

\* C4: when terminate, kill or the wait after kill raises inside stop(), the
\* handle is None and the flag False before control leaves stop(), and stop()
\* returns to its caller instead of raising.
C4_StopSwallowsErrors ==
    \A t \in Callers :
        /\ (pc[t] = "sp_exit" /\ frame[t].err) => (process = None /\ ~running)
        /\ last[t].op = "stop" => last[t].val = "None"

\* C5: stop() escalates to kill only when the whole grace period has passed
\* with the child still there, and the timeout is handled, not raised; after
\* the kill the child is gone; and unless an OS error is on its way out,
\* stop() reaches its end only with the child reaped.
C5_TerminationEscalation ==
    \A t \in Callers :
        /\ pc[t] \in {"sp_kill", "sp_reap"} =>
              (frame[t].clock = GracePeriod /\ ~frame[t].err)
        /\ pc[t] = "sp_reap" => ~PollIsNone(frame[t].process)
        /\ (pc[t] \in {"sp_finally", "sp_exit"} /\ ~frame[t].err) =>
              child[frame[t].process] = "reaped"
        /\ \A c \in Children : "kill" \in sent[c] =>
              ("term" \in sent[c] /\ child[c] \in {"zombie", "reaped"})

\* stop() has returned after it killed a child that sat out the grace period.
C5_Witness ==
    /\ pc["c1"] = "idle"
    /\ last["c1"].op = "stop"
    /\ last["c1"].val = "None"
    /\ \E c \in Children : "kill" \in sent[c] /\ child[c] = "reaped"

\* C6: a stop() that finds no handle returns None having changed nothing and
\* holds no lock afterwards; terminate, kill and wait are reached only with a
\* handle; and after any stop() the handle is None, so that a second stop()
\* is such a call.
C6_StopWithoutHandleIsNoop ==
    \A t \in Callers :
        /\ (last[t].op = "stop" /\ last[t].site = "no_handle") =>
              /\ last[t].val = "None"
              /\ last[t].wrote = {}
              /\ last[t].put = <<>>
        /\ (pc[t] = "idle" /\ last[t].op = "stop") => process = None
        /\ pc[t] \in StopBody => frame[t].process # None
        /\ lock = t => pc[t] \in StopBody

\* stop() has returned on a runner that never had a child.
C6_Witness ==
    /\ pc["c1"] = "idle"
    /\ last["c1"].op = "stop"
    /\ last["c1"].site = "no_handle"
    /\ nstarts = 0

\* C7: a start() whose script does not exist returns False having changed
\* only the queue, to which it added the one diagnostic line; no child is
\* active afterwards and the line is in the queue; and every get_output()
\* returns, in order, at least the chunks that were queued when it was called.
C7_MissingScript ==
    \A t \in Callers :
        /\ last[t].site = "not_found" =>
              /\ last[t].op = "start"
              /\ last[t].val = "False"
              /\ last[t].wrote = {"output_queue"}
              /\ last[t].put = <<DiagNotFound>>
              /\ ~Active
              /\ \E i \in 1..Len(output_queue) : output_queue[i] = DiagNotFound
        /\ last[t].op = "get_output" => IsPrefix(last[t].snap, last[t].out)

\* start() has just failed on a missing script, on an idle runner.
C7_Witness ==
    /\ pc["c1"] = "idle"
    /\ last["c1"].site = "not_found"
    /\ process = None
    /\ output_queue = <<DiagNotFound>>

\* C8: a start() that returns False from its except clause has queued one
\* diagnostic line and has changed neither the handle nor the running flag.
C8_FailedLaunchChangesNothing ==
    \A t \in Callers :
        last[t].site = "launch_failed" =>
            /\ last[t].val = "False"
            /\ last[t].put = <<DiagStartError>>
            /\ last[t].wrote \cap {"process", "running"} = {}

\* C9: is_running returns True exactly when, as it polls, the handle is set
\* and names a child that has not exited; it changes nothing; poll is reached
\* only with a handle; and after it returned False no child is active.
C9_IsRunning ==
    \A t \in Callers :
        /\ last[t].op = "is_running" =>
              /\ last[t].val \in {"True", "False"}
              /\ (last[t].val = "True") <=> last[t].active
              /\ last[t].wrote = {}
              /\ last[t].put = <<>>
              /\ (pc[t] = "idle" /\ last[t].val = "False") => ~Active
        /\ pc[t] = "ir_poll" => frame[t].process # None

\* is_running has returned False after a natural exit, the handle still set.
C9_Witness ==
    /\ pc["c1"] = "idle"
    /\ last["c1"].op = "is_running"
    /\ last["c1"].val = "False"
    /\ process # None
    /\ sent[process] = {}

\* C10: no is_running call waits for the lock while the thread holding it is
\* waiting for the child to exit.
C10_LockNotHeldAcrossWait ==
    \A t \in Callers, u \in Callers :
        (lock = t /\ pc[u] = "ir_lock") => pc[t] \notin {"sp_wait", "sp_reap"}


\* The chunks of q that a child wrote (the others are start()'s diagnostics).
ChildLines(q) == SelectSeq(q, LAMBDA x : x[1] # 0)

\* No chunk occurs twice in q.
NoRepeat(q) == \A i \in 1..Len(q), j \in 1..Len(q) : q[i] = q[j] => i = j

\* C11: while get_output drains, what it has taken so far followed by what is
\* still queued begins with the queue as it was at the call; what it returns
\* begins with that queue, is empty exactly when it removed nothing, and is
\* that queue exactly when no reader thread exists; and no line of a child
\* turns up twice among the chunks returned so far, taken or still queued.
C11_GetOutputDrainsFifo ==
    \A t \in Callers :
        /\ pc[t] = "go_get" =>
              IsPrefix(frame[t].snap, frame[t].output_lines \o output_queue)
        /\ last[t].op = "get_output" =>
              /\ IsPrefix(last[t].snap, last[t].out)
              /\ (last[t].out = <<>>) <=> ("output_queue" \notin last[t].wrote)
              /\ (\A k \in Children : rpc[k] = "unborn") =>
                    last[t].out = last[t].snap
        /\ NoRepeat(ChildLines(drained \o frame[t].output_lines \o output_queue))

\* get_output has returned two chunks, one of them queued by a reader while
\* the drain was going on.
C11_Witness ==
    /\ pc["c1"] = "idle"
    /\ last["c1"].op = "get_output"
    /\ Len(last["c1"].out) = 2
    /\ Len(last["c1"].snap) = 1

\* The lines child c has written so far, in the order it wrote them.
Written(c) == [i \in 1..written[c] |-> <<c, i>>]

\* The line a reader holds between reading it and queuing it.
InHand(k) == IF rpc[k] = "put" THEN <<rline[k]>> ELSE <<>>

\* C12: with one child, the lines get_output has returned so far are the
\* first lines the child wrote, in its order; followed by the lines being
\* drained, queued, in the reader's hand and still in the pipe they are all
\* the lines it wrote; and once the reader is past end-of-stream and a drain
\* has emptied the queue, the lines returned are all the lines it wrote.
C12_OutputOrderPreserved ==
    /\ IsPrefix(ChildLines(drained), Written(1))
    /\ ChildLines(drained \o frame["c1"].output_lines \o output_queue)
          \o InHand(1) \o pipe[1] = Written(1)
    /\ (/\ rpc[1] \in {"close", "flag", "done"}
        /\ rproc[1] = 1
        /\ pc["c1"] = "idle"
        /\ output_queue = <<>>) => ChildLines(drained) = Written(1)

\* The child wrote MaxChunks lines, the reader has finished, and the drain
\* that returned the last line was not the first: earlier drains ran
\* mid-stream.
C12_Witness ==
    /\ written[1] = MaxChunks
    /\ rpc[1] = "done"
    /\ rproc[1] = 1
    /\ pc["c1"] = "idle"
    /\ last["c1"].op = "get_output"
    /\ Len(last["c1"].out) = 1
    /\ ChildLines(drained) = Written(1)

\* The readers that have bound themselves to child c's stream.
ReadersOf(c) == {k \in Children : rpc[k] \in {"read", "put", "close"} /\ rproc[k] = c}

\* C13: the reader started by the n-th start() reads the stream of the child
\* that call spawned and no other, and no child's stream has two readers.
C13_ReaderReadsOwnChild ==
    /\ \A k \in Children : k \in ReadersOf(rproc[k]) => rproc[k] = k
    /\ \A c \in Children : Cardinality(ReadersOf(c)) <= 1

\* Child c has exited, its reader thread was started, and start() has not
\* been called since.
ExitedLast(c) ==
    /\ child[c] \in {"zombie", "reaped"}
    /\ rpc[c] # "unborn"
    /\ nstarts = c

\* C14: polling a child that has exited, is_running returns False and start()
\* goes on to launch; a start() with an existing script fails only where the
\* reader thread could not be started, and when it returns True the handle is
\* the child it spawned; and after a child has exited, the running flag is
\* eventually False, unless start() is called again first.
C14_NaturalExitReturnsToIdle ==
    /\ [](\A t \in Callers :
            /\ (last[t].op = "start" /\ last[t].val = "False") =>
                  last[t].site \in {"rejected", "launch_failed"}
            /\ pc[t] = "st_except" => "reader_thread" \in frame[t].wrote
            /\ (pc[t] = "idle" /\ last[t].site = "started") =>
                  (process = nstarts /\ child[nstarts] # "unborn"))
    /\ [][\A t \in Callers :
            /\ (pc[t] = "st_poll" /\ ~PollIsNone(frame[t].process)) =>
                  pc'[t] \in {"st_poll", "st_exists"}
            /\ (pc[t] = "ir_poll" /\ ~PollIsNone(frame[t].process)
                   /\ pc'[t] = "idle") => last'[t].val = "False"]_vars
    /\ \A c \in Children : ExitedLast(c) ~> (~running \/ nstarts > c)


Runs(str) ==
    {r \in (1..Len(str)) \X (1..Len(str)) :
        /\ r[1] <= r[2]
        /\ \A i \in r[1]..r[2] : str[i] \notin Whitespace
        /\ r[1] = 1 \/ str[r[1] - 1] \in Whitespace
        /\ r[2] = Len(str) \/ str[r[2] + 1] \in Whitespace}

\* The place of the run r among the runs of str, from the left.
Rank(str, r) == Cardinality({q \in Runs(str) : q[1] <= r[1]})

\* C17: the command start() passes to Popen is the interpreter, the script,
\* and then one element for each maximal run of non-whitespace characters of
\* args, in the order of the runs; with args empty it is the interpreter and
\* the script alone.
C17_CommandTokens ==
    \A t \in Callers :
        pc[t] \in {"st_popen", "st_setrun", "st_thread"} =>
            /\ Len(frame[t].cmd) = 2 + Cardinality(Runs(frame[t].args))
            /\ frame[t].cmd[1] = PythonExecutable
            /\ frame[t].cmd[2] = ScriptPath
            /\ \A r \in Runs(frame[t].args) :
                  frame[t].cmd[2 + Rank(frame[t].args, r)]
                     = SubSeq(frame[t].args, r[1], r[2])
            /\ frame[t].args = <<>> =>
                  frame[t].cmd = <<PythonExecutable, ScriptPath>>

\* start("a  b"-like args) has spawned its child with two separate tokens.
C17_Witness ==
    /\ pc["c1"] = "st_setrun"
    /\ child[frame["c1"].id] = "running"
    /\ frame["c1"].args = <<"a", " ", "\t", "b">>
    /\ frame["c1"].cmd = <<PythonExecutable, ScriptPath, <<"a">>, <<"b">>>>

\* C18: a start() that is being executed returns, with nothing assumed about
\* the child or the reader thread ever taking a step: the thread that is in
\* start() only has to be scheduled.
C18_StartReturns ==
    \A t \in Callers :
        (pc[t] \in {"st_lock", "st_poll"} \cup StartBody) ~> (pc[t] = "idle")

\* start() has returned True while its child is running and has written
\* nothing, and its reader thread has not executed a single statement.
C18_Witness ==
    /\ pc["c1"] = "idle"
    /\ last["c1"].site = "started"
    /\ Active
    /\ written[process] = 0
    /\ rpc[process] = "getproc"

\* The statements of start() and stop() that assign self._process or
\* self._running.
WritesShared == {"st_popen", "st_setrun", "sp_finally"}

\* C19: a thread that is at a statement assigning the handle or the running
\* flag holds the lock.
C19_SharedStateUnderLock ==
    \A t \in Callers : pc[t] \in WritesShared => lock = t

\* C20: whenever no start() is under way and a child is active, the running
\* flag is True.
C20_FlagFollowsLifecycle ==
    (\A t \in Callers : pc[t] \notin {"st_lock", "st_poll"} \cup StartBody)
        => (Active => running)

\* C21: a reader that is past the read loop of a child has closed that
\* child's stream; no statement of a reader changes the handle; and the
\* reader's last statement runs with the lock free for it to take, sets the
\* flag False and leaves the handle as it was.
C21_ReaderLeavesHandle ==
    /\ [](\A k \in Children :
            (rpc[k] \in {"flag", "done"} /\ rproc[k] # None) =>
                closes[rproc[k]] >= 1)
    /\ [][\A k \in Children :
            /\ (rpc[k] # "unborn" /\ rpc'[k] # rpc[k]) => process' = process
            /\ (rpc[k] = "flag" /\ rpc'[k] = "done") =>
                  (lock = "free" /\ ~running' /\ process' = process)]_vars

\* The child exited on its own and its reader has finished: the stream is
\* closed, the flag is False and the handle is still set.
C21_Witness ==
    /\ rpc[1] = "done"
    /\ rproc[1] = 1
    /\ closes[1] = 1
    /\ ~running
    /\ process = 1

\* The reader thread of start call k is alive with a line to append: it holds
\* one, or its stream is open and has one ready.
Appending(k) ==
    \/ rpc[k] = "put"
    \/ /\ rpc[k] = "read"
       /\ closes[rproc[k]] = 0
       /\ pipe[rproc[k]] # <<>>

\* C22: when the reader of a newly started child is about to append a line,
\* no reader of an earlier start is alive and appending, and the queue never
\* holds a line of an earlier child behind a line of a later one.
C22_OneReaderAppends ==
    /\ \A j \in Children, k \in Children :
          (j < k /\ rpc[k] = "put") => ~Appending(j)
    /\ \A i \in 1..Len(output_queue), j \in 1..Len(output_queue) :
          (i < j /\ output_queue[i][1] # 0 /\ output_queue[j][1] # 0) =>
              output_queue[i][1] <= output_queue[j][1]

\* C27: no statement of start() or stop() takes a chunk out of the output
\* queue or moves one: each of their steps leaves the queue as it was or
\* appends at its tail, so what was queued at the call is, in the same
\* order, a prefix of the queue at the return and is what the next
\* get_output returns first.
C27_StartStopKeepQueue ==
    \A t \in Callers :
        /\ (pc[t] \in StartBody \cup StopBody \cup {"st_lock", "st_poll", "sp_lock"}) =>
              "dequeue" \notin frame[t].wrote
        /\ (pc[t] = "idle" /\ last[t].op \in {"start", "stop"}) =>
              "dequeue" \notin last[t].wrote
        /\ (pc[t] = "idle" /\ last[t].op = "get_output") =>
              IsPrefix(last[t].snap, last[t].out)

\* A failed start returned with chunks queued before it still in the queue,
\* in front of its diagnostic.
C27_Witness ==
    \E t \in Callers :
        /\ pc[t] = "idle"
        /\ last[t].op = "start"
        /\ last[t].site = "launch_failed"
        /\ Len(output_queue) >= 2
        /\ output_queue[1][1] # 0

\* C24: once Popen has run, the working directory it was given is the cwd
\* argument when cwd was supplied and is not empty, and the directory of the
\* script when cwd is None or the empty string.
C24_WorkingDirectory ==
    \A t \in Callers :
        pc[t] \in {"st_setrun", "st_thread"} =>
            /\ (frame[t].cwd.given /\ Len(frame[t].cwd.path) > 0) =>
                  frame[t].working_dir = frame[t].cwd.path
            /\ (~frame[t].cwd.given \/ Len(frame[t].cwd.path) = 0) =>
                  frame[t].working_dir = ScriptParent

\* A child was spawned by a start() whose cwd is the empty string: it runs in
\* the script's directory.
C24_Witness ==
    \E t \in Callers :
        /\ pc[t] = "st_thread"
        /\ frame[t].cwd = [given |-> TRUE, path |-> <<>>]
        /\ frame[t].working_dir = ScriptParent
        /\ child[frame[t].id] = "running"

\* C29: update_entry and remove_entry called with an index below 0 or not
\* below the length of the list return False, leave the list as it was and
\* do not save; with an index in range they return True and save, update_entry
\* leaves every other entry and the length as they were, and remove_entry
\* leaves the entries before the index in place, moves the later ones down by
\* one and makes the list one shorter.
C29_EntryIndexChecked ==
    LET l == config.last
        n == Len(l.before)
        entries == config.entries
    IN  l.op \in {"update_entry", "remove_entry"} =>
          /\ (l.index < 0 \/ l.index >= n) =>
                /\ l.ret = "False"
                /\ entries = l.before
                /\ ~l.saved
          /\ (0 <= l.index /\ l.index < n) =>
                /\ l.ret = "True"
                /\ l.saved
                /\ config.file = entries
                /\ l.op = "update_entry" =>
                      /\ Len(entries) = n
                      /\ \A i \in 1..n : i # l.index + 1 => entries[i] = l.before[i]
                /\ l.op = "remove_entry" =>
                      /\ Len(entries) = n - 1
                      /\ \A i \in 1..(n - 1) :
                            entries[i] = IF i < l.index + 1 THEN l.before[i]
                                                            ELSE l.before[i + 1]

\* remove_entry(-1) on a list of three entries returned False and changed
\* nothing.
C29_Witness ==
    /\ config.last.op = "remove_entry"
    /\ config.last.index = 0 - 1
    /\ Len(config.last.before) = 3
    /\ config.last.ret = "False"
    /\ config.entries = config.last.before

\* C25: after every _append_to_log call, log_content split at newlines has
\* at most log_max_lines pieces, for every log_max_lines >= 0; when the text
\* was truncated the pieces are the last log_max_lines pieces of what the log
\* would have been, in their order; and the widget shows log_content.
C25_LogBounded ==
    app.log_call.op = "append" =>
        LET m == config.log_max_lines
            lines == SplitLines(app.log_content)
            all == SplitLines(app.log_call.joined)
        IN  /\ Len(lines) <= m
            /\ Len(all) > m =>
                  lines = SubSeq(all, Len(all) - m + 1, Len(all))
            /\ app.log_text = app.log_content

\* Every chunk a runner can queue: the two diagnostics and the children's
\* lines.
Chunks ==
    {DiagNotFound, DiagStartError}
        \cup {<<c, n>> : c \in Children, n \in 1..MaxLines}

InQueue(chunk) == \E i \in 1..Len(output_queue) : output_queue[i] = chunk

\* C23: with the poll loop ticking, a chunk that is in the output queue is
\* eventually appended to the log by _update, as long as the window exists.
C23_QueuedOutputShown ==
    \A chunk \in Chunks :
        (InQueue(chunk) /\ ~app.destroyed) ~>
            (chunk \in app.shown \/ app.destroyed)

\* C26: when no handler is running, a script is recorded iff Stop is enabled
\* and every entry button is disabled.
C26_ButtonsFollowScript ==
    app.h = "idle" =>
        ((app.current_script # "") <=>
            (app.btn_stop /\ \A i \in DOMAIN app.entry_buttons :
                                ~app.entry_buttons[i]))

\* C28: once the window has been destroyed, no child the launcher started is
\* running.
C28_CloseStopsChild ==
    app.destroyed => \A c \in Children : child[c] # "running"
====
